---- MODULE Spec2Model ----
(***************************************************************************)
(* Model of the SymptomMinder save-and-audit pipeline: the save entry      *)
(* point (tools/symptom_tools.py), the durable jury trigger counter        *)
(* (utils/es_utils.py) and the LLM jury (jury_tools.py).  Every network    *)
(* call (an await in the code) is one step of the calling process and may  *)
(* succeed or raise.                                                       *)
(***************************************************************************)
EXTENDS Integers, Sequences, FiniteSets, TLC

(* ------------------------------ bounds --------------------------------- *)
\* save calls started in one behaviour of Spec
MaxSaves == 3
\* calls that raise (or malformed store responses) in one behaviour of Spec
MaxFaults == 3
\* save calls started in one behaviour of SpecSeq (no call raises)
MaxSeqSaves == 7
\* callers whose save calls may overlap (SpecConc)
NumProcs == 2
\* save calls started and calls that raise in one behaviour of SpecConc
MaxConcSaves == 2
MaxPasses == 2
MaxScenarioSaves == 2
MaxUpdSaves == 2
MaxUpdFaults == 0
MaxUpdates == 1
MaxFollowUps == 2
MaxRaceSaves == 2
MaxLiveSaves == 1
MaxLiveFaults == 2
MaxFollowUpFaults == 1
MaxConcFaults == 1
\* save calls and failing calls next to review calls
MaxReviewSaves == 1
MaxReviewFaults == 1
\* the largest count stored before a side-by-side run
MaxStoredCount == 1

Procs == 1..NumProcs

(* --------------------------- python values ----------------------------- *)
\* Python values are tagged; a str is a sequence of one-character strings.
PyNone == [t |-> "none"]
\* a key left out of a mapping, an argument not passed
Absent == [t |-> "absent"]
PyStr(s) == [t |-> "str", v |-> s]
PyInt(n) == [t |-> "int", v |-> n]
PyList(l) == [t |-> "list", v |-> l]

\* str.lower() on the characters the drafts use
LowerChar(c) ==
    CASE c = "N" -> "n"
      [] c = "A" -> "a"
      [] c = "O" -> "o"
      [] c = "E" -> "e"
      [] c = "U" -> "u"
      [] c = "L" -> "l"
      [] c = "I" -> "i"
      [] OTHER -> c
Lower(s) == [i \in 1..Len(s) |-> LowerChar(s[i])]

\* str.strip(): drop leading and trailing whitespace
RECURSIVE LStrip(_)
LStrip(s) == IF s # <<>> /\ Head(s) = " " THEN LStrip(Tail(s)) ELSE s
RECURSIVE RStrip(_)
RStrip(s) ==
    IF s # <<>> /\ s[Len(s)] = " " THEN RStrip(SubSeq(s, 1, Len(s) - 1)) ELSE s
Strip(s) == RStrip(LStrip(s))

NULL_VALUES ==
    { <<"n", "o", "n", "e">>, <<"n", "u", "l", "l">>, <<"n", "/", "a">>,
      <<"n", "a">>, <<"n", "i", "l">>, <<>> }

is_null_value(value) ==
    value.t = "str" /\ Lower(Strip(value.v)) \in NULL_VALUES

\* Python truthiness of the values used here
Truthy(value) ==
    CASE value.t = "none" -> FALSE
      [] value.t = "str" -> value.v # <<>>
      [] value.t = "list" -> value.v # <<>>
      [] value.t = "int" -> value.v # 0
      [] OTHER -> TRUE

(* ---------------------------- normalizer ------------------------------- *)
\* the body of clean_entry on a non-empty sd = entry.get("symptom_details");
\* symptom_details is a function from its keys to values
clean_entry(sd) ==
    LET nulled == [k \in DOMAIN sd |->
                     IF is_null_value(sd[k])
                     THEN (IF k = "associated_symptoms" THEN PyList(<<>>) ELSE PyNone)
                     ELSE sd[k]]
    IN [k \in DOMAIN nulled |->
          IF k = "associated_symptoms" /\ nulled[k].t # "list"
          THEN (IF nulled[k].t = "str" THEN PyList(<<nulled[k].v>>)
                ELSE IF nulled[k].t = "none" THEN PyList(<<>>)
                ELSE nulled[k])
          ELSE nulled[k]]

AltNoteFields == <<"description", "notes", "summary", "context">>

RECURSIVE FirstAlt(_, _)
FirstAlt(sd, i) ==
    IF i > Len(AltNoteFields) THEN PyNone
    ELSE LET f == AltNoteFields[i]
         IN IF f \in DOMAIN sd /\ sd[f].t = "str" /\ Strip(sd[f].v) # <<>>
            THEN PyStr(Strip(sd[f].v))
            ELSE FirstAlt(sd, i + 1)

\* a fallback that appends the alternate field to raw_notes already there
ensure_raw_notes_append(sd) ==
    LET alt == FirstAlt(sd, 1)
    IN IF alt = PyNone THEN sd
       ELSE [k \in DOMAIN sd \cup {"raw_notes"} |->
               IF k # "raw_notes" THEN sd[k]
               ELSE IF "raw_notes" \in DOMAIN sd /\ sd[k].t = "str"
                    THEN PyStr(sd[k].v \o alt.v)
                    ELSE alt]

\* the body of ensure_raw_notes on sd = entry.get("symptom_details", {})
ensure_raw_notes(sd) ==
    IF "raw_notes" \in DOMAIN sd /\ Truthy(sd["raw_notes"]) THEN sd
    ELSE LET alt == FirstAlt(sd, 1)
         IN IF alt = PyNone THEN sd
            ELSE [k \in DOMAIN sd \cup {"raw_notes"} |->
                    IF k = "raw_notes" THEN alt ELSE sd[k]]

\* clean_entry(entry): only entry["symptom_details"] is rewritten, and only
\* when it is non-empty (if sd:)
CleanPass(entry) ==
    [entry EXCEPT !["symptom_details"] = IF DOMAIN @ # {} THEN clean_entry(@) ELSE @]

\* ensure_raw_notes(entry)
RawNotesPass(entry) ==
    [entry EXCEPT !["symptom_details"] = ensure_raw_notes(@)]

(* ----------------------------- validator ------------------------------- *)
SEVERITY_MIN == 1
SEVERITY_MAX == 10

\* a schema without the ge/le bounds on severity
SymptomEntry_unbounded(sd) ==
    /\ "symptom" \in DOMAIN sd /\ sd["symptom"].t = "str"
    /\ "severity" \in DOMAIN sd /\ sd["severity"].t = "int"

\* a schema with exclusive bounds (gt/lt) on severity
SymptomEntry_exclusive(sd) ==
    /\ "symptom" \in DOMAIN sd /\ sd["symptom"].t = "str"
    /\ "severity" \in DOMAIN sd /\ sd["severity"].t = "int"
    /\ sd["severity"].v > SEVERITY_MIN /\ sd["severity"].v < SEVERITY_MAX
    /\ "raw_notes" \in DOMAIN sd => sd["raw_notes"].t \in {"none", "str"}
    /\ "associated_symptoms" \in DOMAIN sd =>
         sd["associated_symptoms"].t \in {"none", "list"}

\* SymptomEntry(**entry): required str symptom, required int severity with
\* ge/le bounds, optional str raw_notes, optional list associated_symptoms;
\* keys the schema does not declare are ignored
SymptomEntry(sd) ==
    /\ "symptom" \in DOMAIN sd /\ sd["symptom"].t = "str"
    /\ "severity" \in DOMAIN sd /\ sd["severity"].t = "int"
    /\ sd["severity"].v >= SEVERITY_MIN /\ sd["severity"].v <= SEVERITY_MAX
    /\ "raw_notes" \in DOMAIN sd => sd["raw_notes"].t \in {"none", "str"}
    /\ "associated_symptoms" \in DOMAIN sd =>
         sd["associated_symptoms"].t \in {"none", "list"}

(* --------------------------- configuration ----------------------------- *)
\* JURY_MODE values: 'none', 'every_X', or anything else.  An every_ mode is
\* modelled by the text after the first underscore: a number or not a number.
JuryModes ==
    {[kind |-> "none"], [kind |-> "other"], [kind |-> "every", arg |-> PyStr(<<>>)]}
      \cup {[kind |-> "every", arg |-> PyInt(n)] : n \in {-2, 0, 1, 2, 3}}

\* the module-level parsing of JURY_MODE into jury_trigger_modulo
ParseJuryMode(mode) ==
    IF mode.kind = "every"
    THEN (IF mode.arg.t = "int" THEN mode.arg.v ELSE 1)
    ELSE IF mode.kind = "none" THEN 0
    ELSE 1

\* Python's a % n for n # 0: the result has the sign of the divisor
PyMod(a, n) ==
    IF n > 0 THEN a % n
    ELSE LET r == a % (0 - n) IN IF r = 0 THEN 0 ELSE r + n

\* a gate that opens one save late
JuryTriggered_late(modulo, count) == modulo # 0 /\ PyMod(count, modulo) = 1

\* a gate that treats modulus 0 as "every save"
JuryTriggered_always(modulo, count) == modulo = 0 \/ PyMod(count, modulo) = 0

\* the audit gate: jury_trigger_modulo and (count % jury_trigger_modulo == 0)
JuryTriggered(modulo, count) == modulo # 0 /\ PyMod(count, modulo) = 0

(* ------------------------------- jury ---------------------------------- *)
JURY_MODELS ==
    <<"claude-3-5-sonnet-latest", "claude-3-7-sonnet-latest",
      "claude-sonnet-4-20250514">>
AGGREGATION_MODEL == "claude-sonnet-4-20250514"
Panel == 1..Len(JURY_MODELS)

Pending == [done |-> FALSE]

\* the dict call_jury_model returns for a member whose call returned (ok) or
\* raised (~ok)
call_jury_model(model_id, ok) ==
    [done |-> TRUE, model_id |-> model_id, success |-> ok,
     jury_report |-> IF ok THEN "text" ELSE "Error: msg",
     error |-> IF ok THEN "None" ELSE "msg"]

\* a join that returns as soon as one panel call is in
all_joined_first(tasks) == \E j \in Panel : tasks[j] # Pending

\* await asyncio.gather(...) returns once every panel call has returned its
\* dict, for a success or for a caught failure
all_joined(tasks) == \A j \in Panel : tasks[j] # Pending

\* results collected in completion order (as asyncio.as_completed would)
gather_as_completed(tasks, finished) ==
    [k \in 1..Len(finished) |-> tasks[finished[k]]]

\* asyncio.gather: the results in the order of the awaitables passed in,
\* whatever the order (finished) in which they completed
gather(tasks, finished) == [i \in 1..Len(tasks) |-> tasks[i]]

\* a tally that counts every panel output as failed
failed_models_all(outputs) == DOMAIN outputs

successful_models(outputs) == {i \in DOMAIN outputs : outputs[i].success}
failed_models(outputs) == {i \in DOMAIN outputs : ~outputs[i].success}

\* a report that does not carry the id of its Record
Report_unreferenced(event_id, outputs) ==
    [event_id |-> PyNone,
     jury_models |-> JURY_MODELS,
     jury_outputs |-> outputs,
     successful_models_count |-> Cardinality(successful_models(outputs)),
     failed_models_count |-> Cardinality(failed_models(outputs)),
     jury_aggregation_model |-> AGGREGATION_MODEL]

\* the report document written to JURY_SUMMARY_INDEX
Report(event_id, outputs) ==
    [event_id |-> event_id,
     jury_models |-> JURY_MODELS,
     jury_outputs |-> outputs,
     successful_models_count |-> Cardinality(successful_models(outputs)),
     failed_models_count |-> Cardinality(failed_models(outputs)),
     jury_aggregation_model |-> AGGREGATION_MODEL]

\* a write that is sent twice
persist_report_twice(stored, report) == Append(Append(stored, report), report)

\* es.index(index=JURY_SUMMARY_INDEX, document=report): no id is given, so
\* the store adds a new document
persist_report(stored, report) == Append(stored, report)

\* ctx.error(...) inside jury_tools is not guarded: without a context it
\* raises AttributeError out of the except block it is called from
CtxErrorRaises(ctx) == ~ctx

\* the outer except of llm_jury_compare_notes: log, then return an error dict
llm_jury_except(ctx) == IF CtxErrorRaises(ctx) THEN "raised" ELSE "error"

\* the caller: jury_reviewed = True once the awaited jury call returned,
\* False when it raised
JuryReviewed(jury_status) == jury_status \in {"jury_completed", "error"}

\* a jury exception that escapes to the outer except of the save call
SavedStatus_propagate(jury_status) ==
    IF jury_status = "raised" THEN "error" ELSE "saved"

\* the status of a save whose primary write succeeded
SavedStatus(jury_status) == "saved"

(* ----------------------------- counter --------------------------------- *)
\* an absent counter read as 1
get_jury_counter_from1(ok, stored) ==
    IF ok /\ stored.t = "int" THEN stored.v ELSE 1

\* get_jury_counter: the stored count, 0 when the get raises (absent or not)
get_jury_counter(ok, stored) ==
    IF ok /\ stored.t = "int" THEN stored.v ELSE 0

\* an increment that writes the value it read
new_count_same(current) == current

\* increment_jury_counter: new_count = current + 1
new_count(current) == current + 1

\* a write that never stores less than one more than what is stored
counter_doc_cas(written, stored) ==
    IF stored.t = "int" /\ stored.v >= written
    THEN PyInt(stored.v + 1) ELSE PyInt(written)

\* es.index(id="global_counter", document={"count": new_count}): the value
\* computed from the earlier read replaces whatever is stored by now
counter_doc(written, stored) == PyInt(written)

\* increment_jury_counter: the value returned after the write
increment_result(ok, written) == IF ok THEN written ELSE 0

\* an extraction that gives the id of the first document whatever the response
get_es_response_id_first(resp) == PyInt(1)

\* get_es_response_id(resp)
get_es_response_id(resp) ==
    IF "_id" \in DOMAIN resp THEN resp["_id"] ELSE PyNone

(* ------------------------------ drafts --------------------------------- *)
Details(symptom, severity, raw_notes) ==
    [k \in {"symptom", "severity", "raw_notes", "associated_symptoms"} |->
       CASE k = "symptom" -> symptom
         [] k = "severity" -> severity
         [] k = "raw_notes" -> raw_notes
         [] OTHER -> PyNone]

\* the parameters of the save entry point that make up symptom_details
SaveParams == {"symptom", "severity", "raw_notes", "associated_symptoms"}

\* the call binds its keyword arguments: symptom and severity are required,
\* a keyword the signature does not declare is a TypeError
AcceptsParams(kwargs) ==
    /\ {"symptom", "severity"} \subseteq DOMAIN kwargs
    /\ DOMAIN kwargs \subseteq SaveParams

\* entry["symptom_details"] as built from the parameters: the declared keys
\* only, None for those not passed
BuildDetails(kwargs) ==
    [k \in SaveParams |-> IF k \in DOMAIN kwargs THEN kwargs[k] ELSE PyNone]

\* the keyword arguments callers pass to the save entry point
SaveDrafts ==
    { Details(PyStr(<<"h", "a">>), PyInt(5), PyStr(<<"x">>)),
      Details(PyStr(<<"h", "a">>), PyInt(0), PyStr(<<"x">>)),
      Details(PyStr(<<"h", "a">>), PyInt(11), PyStr(<<"x">>)),
      Details(PyStr(<<"N", "A">>), PyInt(5), PyStr(<<"x">>)) }

(* ------------------------------- state --------------------------------- *)
VARIABLES
    jury_trigger_modulo,  \* parsed from JURY_MODE at process start
    records,              \* ES_INDEX: the stored Records, id = position
    counter,              \* JURY_COUNTER_INDEX/global_counter: PyNone if absent
    reports,              \* JURY_SUMMARY_INDEX: the stored Audit Reports
    saves_left,           \* save calls that may still be started
    faults_left,          \* calls that may still raise
    call,                 \* per caller: the save call in progress
    drafts,               \* the drafts callers may submit
    updates_left,         \* follow-up update calls that may still be started
    upd,                  \* per caller: the follow-up update in progress
    norm,                 \* the draft the normalizer passes are applied to
    rev,                  \* the result of the last review call
    sides                 \* one save run by both orchestrations, side by side

vars == <<jury_trigger_modulo, records, counter, reports, saves_left,
          faults_left, call, drafts, updates_left, upd, norm, rev,
          sides>>

Idle ==
    [pc |-> "idle", ctx |-> FALSE, draft |-> <<>>, resp |-> <<>>,
     current |-> 0, jury_trigger_count |-> 0, tasks |-> <<>>,
     finished |-> <<>>, jury_outputs |-> <<>>, agg_called |-> FALSE,
     jury_status |-> "none", status |-> "none", jury_reviewed |-> FALSE,
     faults |-> {}]

\* no follow-up update in progress
NoUpdate ==
    [pc |-> "idle", event_id |-> 0, args |-> <<>>, doc |-> <<>>,
     status |-> "none"]

\* no normalizer run in progress
NoNorm ==
    [input |-> <<>>, prev |-> <<>>, value |-> <<>>, passes |-> <<>>,
     valid |-> "unknown"]

\* no review call made yet
NoReview == [status |-> "none", draft |-> <<>>, passes |-> <<>>, entry |-> <<>>]

\* no side-by-side run set up
NoSides == [pc |-> "none"]

\* empty stores, no call in progress
EmptyStores ==
    /\ rev = NoReview
    /\ sides = NoSides
    /\ records = <<>>
    /\ counter = PyNone
    /\ reports = <<>>
    /\ call = [p \in Procs |-> Idle]
    /\ upd = [p \in Procs |-> NoUpdate]

InitStores ==
    /\ jury_trigger_modulo \in {ParseJuryMode(m) : m \in JuryModes}
    /\ EmptyStores
    /\ drafts = SaveDrafts
    /\ updates_left = 0
    /\ norm = NoNorm

Init == InitStores /\ saves_left = MaxSaves /\ faults_left = MaxFaults

InitConc ==
    InitStores /\ saves_left = MaxConcSaves /\ faults_left = MaxConcFaults

\* no call raises
InitSeq == InitStores /\ saves_left = MaxSeqSaves /\ faults_left = 0

(* ------------------------------ actions -------------------------------- *)
\* the outcomes the environment may give a network call: return or raise
Outcomes == IF faults_left > 0 THEN BOOLEAN ELSE {TRUE}

Spend(ok) == faults_left' = IF ok THEN faults_left ELSE faults_left - 1

\* the return of a save call whose Record was written
Finish(c, js) ==
    [c EXCEPT !.pc = "done", !.jury_status = js,
              !.jury_reviewed = JuryReviewed(js), !.status = SavedStatus(js)]

\* the outer except of confirm_and_save_symptom_entry_impl
Reject(c) == [c EXCEPT !.pc = "done", !.status = "error"]

\* the call never enters the function body: the exception reaches the caller
Raise(c) == [c EXCEPT !.pc = "done", !.status = "raised"]

\* how the keyword arguments reach the function: called directly, an
\* undeclared keyword raises (strict); through the tool layer it is either
\* refused the same way or dropped before the call
Binding(kwargs) == IF AcceptsParams(kwargs) THEN {TRUE} ELSE BOOLEAN

\* a failed Record write that is swallowed
AfterRecordWrite_swallow(c, ok, resp) ==
    [c EXCEPT !.pc = "persisted", !.resp = resp]

\* resp = await es.index(...): the call goes on with the response, or the
\* exception reaches the outer except
AfterRecordWrite(c, ok, resp) ==
    IF ok THEN [c EXCEPT !.pc = "persisted", !.resp = resp] ELSE Reject(c)

\* confirm_and_save_symptom_entry_impl up to the return of the Record write:
\* build, clean_entry, ensure_raw_notes, SymptomEntry(**entry), es.index
ConfirmAndSave(p) ==
    /\ call[p].pc = "idle"
    /\ saves_left > 0
    /\ saves_left' = saves_left - 1
    /\ \E d \in drafts : \E c \in BOOLEAN, ok \in Outcomes,
                            hasId \in Outcomes, strict \in Binding(d) :
         LET entry == ensure_raw_notes(clean_entry(BuildDetails(d)))
             started == [call[p] EXCEPT !.ctx = c, !.draft = d]
             id == PyInt(Len(records) + 1)
             resp == IF hasId THEN [k \in {"_id"} |-> id]
                     ELSE [k \in {"result"} |-> id]
         IN IF strict /\ ~AcceptsParams(d)
            THEN /\ call' = [call EXCEPT ![p] =
                      Raise([started EXCEPT !.faults = {"signature"}])]
                 /\ UNCHANGED <<records, faults_left>>
            ELSE IF ~SymptomEntry(entry)
            THEN /\ call' = [call EXCEPT ![p] =
                      Reject([started EXCEPT !.faults = {"validation"}])]
                 /\ UNCHANGED <<records, faults_left>>
            ELSE /\ records' = IF ok THEN Append(records, entry) ELSE records
                 /\ Spend(ok /\ hasId)
                 /\ call' = [call EXCEPT ![p] =
                      AfterRecordWrite(
                        [started EXCEPT !.faults =
                           IF ~ok THEN {"persist"}
                           ELSE IF ~hasId THEN {"noid"} ELSE {}],
                        ok, resp)]
    /\ UNCHANGED <<drafts, norm, upd, updates_left, rev, sides>>
    /\ UNCHANGED <<jury_trigger_modulo, counter, reports>>

\* increment_jury_counter, first await: current = await get_jury_counter(es)
CounterRead(p) ==
    /\ call[p].pc = "persisted"
    /\ \E ok \in Outcomes :
         /\ Spend(ok)
         /\ call' = [call EXCEPT ![p] =
              [@ EXCEPT !.pc = "counter_read",
                        !.current = get_jury_counter(ok, counter),
                        !.faults = IF ok THEN @ ELSE @ \cup {"read"}]]
    /\ UNCHANGED <<drafts, norm, upd, updates_left, rev, sides>>
    /\ UNCHANGED <<jury_trigger_modulo, records, counter, reports, saves_left>>

\* increment_jury_counter, second await (the write of current + 1), then the
\* gate and, when it opens, the launch of the panel calls
CounterWrite(p) ==
    /\ call[p].pc = "counter_read"
    /\ \E ok \in Outcomes :
         LET written == new_count(call[p].current)
             count == increment_result(ok, written)
             c == [call[p] EXCEPT
                     !.jury_trigger_count = count,
                     !.faults = IF ok THEN @ ELSE @ \cup {"write"}]
             event_id == get_es_response_id(c.resp)
         IN /\ Spend(ok)
            /\ counter' = IF ok THEN counter_doc(written, counter) ELSE counter
            /\ IF JuryTriggered(jury_trigger_modulo, count) /\ Truthy(event_id)
               THEN call' = [call EXCEPT ![p] =
                      [c EXCEPT !.pc = "panel",
                                !.tasks = [i \in Panel |-> Pending]]]
               ELSE call' = [call EXCEPT ![p] = Finish(c, "none")]
    /\ UNCHANGED <<drafts, norm, upd, updates_left, rev, sides>>
    /\ UNCHANGED <<jury_trigger_modulo, records, reports, saves_left>>

\* one panel call returns or raises; when the last one is in, gather returns
\* and the aggregation call is made
PanelReturn(p, i) ==
    /\ call[p].pc = "panel"
    /\ call[p].tasks[i] = Pending
    /\ \E ok \in Outcomes :
         LET c == call[p]
             tasks == [c.tasks EXCEPT ![i] = call_jury_model(JURY_MODELS[i], ok)]
             finished == Append(c.finished, i)
         IN /\ Spend(ok)
            /\ IF ~ok /\ CtxErrorRaises(c.ctx)
               THEN call' = [call EXCEPT ![p] =
                      Finish([c EXCEPT !.faults = @ \cup {"panel"}],
                             llm_jury_except(c.ctx))]
               ELSE IF all_joined(tasks)
               THEN call' = [call EXCEPT ![p] =
                      [c EXCEPT !.pc = "aggregate", !.tasks = tasks,
                                !.finished = finished,
                                !.jury_outputs = gather(tasks, finished),
                                !.agg_called = TRUE,
                                !.faults = IF ok THEN @ ELSE @ \cup {"panel"}]]
               ELSE call' = [call EXCEPT ![p] =
                      [c EXCEPT !.tasks = tasks, !.finished = finished,
                                !.faults = IF ok THEN @ ELSE @ \cup {"panel"}]]
    /\ UNCHANGED <<drafts, norm, upd, updates_left, rev, sides>>
    /\ UNCHANGED <<jury_trigger_modulo, records, counter, reports, saves_left>>

\* the aggregation call returns or raises
AggregationReturn(p) ==
    /\ call[p].pc = "aggregate"
    /\ \E ok \in Outcomes :
         /\ Spend(ok)
         /\ IF ok
            THEN call' = [call EXCEPT ![p] = [@ EXCEPT !.pc = "report"]]
            ELSE call' = [call EXCEPT ![p] =
                   Finish([call[p] EXCEPT !.faults = @ \cup {"aggregation"}],
                          llm_jury_except(call[p].ctx))]
    /\ UNCHANGED <<drafts, norm, upd, updates_left, rev, sides>>
    /\ UNCHANGED <<jury_trigger_modulo, records, counter, reports, saves_left>>

\* es.index(index=JURY_SUMMARY_INDEX, document=report) returns or raises
ReportWrite(p) ==
    /\ call[p].pc = "report"
    /\ \E ok \in Outcomes :
         /\ Spend(ok)
         /\ IF ok
            THEN /\ reports' = persist_report(reports,
                      Report(get_es_response_id(call[p].resp), call[p].jury_outputs))
                 /\ call' = [call EXCEPT ![p] = Finish(call[p], "jury_completed")]
            ELSE /\ UNCHANGED reports
                 /\ call' = [call EXCEPT ![p] =
                      Finish([call[p] EXCEPT !.faults = @ \cup {"report"}],
                             llm_jury_except(call[p].ctx))]
    /\ UNCHANGED <<drafts, norm, upd, updates_left, rev, sides>>
    /\ UNCHANGED <<jury_trigger_modulo, records, counter, saves_left>>

\* the caller takes the result; the next call starts from fresh locals
Return(p) ==
    /\ call[p].pc = "done"
    /\ call' = [call EXCEPT ![p] = Idle]
    /\ UNCHANGED <<drafts, norm, upd, updates_left, rev, sides>>
    /\ UNCHANGED <<jury_trigger_modulo, records, counter, reports, saves_left,
                   faults_left>>

Step(p) ==
    \/ ConfirmAndSave(p)
    \/ CounterRead(p)
    \/ CounterWrite(p)
    \/ \E i \in Panel : PanelReturn(p, i)
    \/ AggregationReturn(p)
    \/ ReportWrite(p)
    \/ Return(p)

\* one caller: save calls one after another, any call may raise
Next == Step(1)

Spec == Init /\ [][Next]_vars

\* one caller: save calls one after another, no call raises
SpecSeq == InitSeq /\ [][Next]_vars

\* "sharp pain"
SharpPain == PyStr(<<"s", "h", "a", "r", "p", " ", "p", "a", "i", "n">>)

\* keyword arguments with the given values (Absent = not passed)
Kwargs(symptom, severity, raw_notes, description) ==
    LET all == [k \in {"symptom", "severity", "raw_notes", "description"} |->
                  CASE k = "symptom" -> symptom
                    [] k = "severity" -> severity
                    [] k = "raw_notes" -> raw_notes
                    [] OTHER -> description]
    IN [k \in {j \in DOMAIN all : all[j] # Absent} |-> all[k]]

\* a save of severity 9 with the text passed as description, as raw_notes,
\* or not at all
ScenarioDrafts ==
    { Kwargs(PyStr(<<"h", "a">>), PyInt(9), Absent, SharpPain),
      Kwargs(PyStr(<<"h", "a">>), PyInt(9), SharpPain, Absent),
      Kwargs(PyStr(<<"h", "a">>), PyInt(9), Absent, Absent) }

InitScenario ==
    /\ jury_trigger_modulo \in {ParseJuryMode(m) : m \in JuryModes}
    /\ EmptyStores
    /\ drafts = ScenarioDrafts
    /\ saves_left = MaxScenarioSaves /\ faults_left = 0 /\ updates_left = 0
    /\ norm = NoNorm

\* one caller, no call raises, the drafts of the end-to-end scenario
SpecScenario == InitScenario /\ [][Next]_vars

\* several callers: their save calls interleave at every await
NextConc == \E p \in Procs : Step(p)

SpecConc == InitConc /\ [][NextConc]_vars

InitLive == InitStores /\ saves_left = MaxLiveSaves /\ faults_left = MaxLiveFaults

\* one caller; every store operation and every model call that is awaited
\* eventually returns or raises
SpecLive == InitLive /\ [][Next]_vars /\ WF_vars(Step(1))

\* the two callers whose save calls race
Racers == {1, 2}

InitRace == InitStores /\ saves_left = MaxRaceSaves /\ faults_left = 0

NextRace == \E p \in Racers : Step(p)

\* two callers, no call raises: their save calls interleave at every await
SpecRace == InitRace /\ [][NextRace]_vars

(* ------------------------- follow-up update --------------------------- *)
\* "\n\nFollow-up: " and "Follow-up: "
FollowUpPrefix == <<"F", "o", "l", "l", "o", "w", "-", "u", "p", ":", " ">>
FollowUpSep == <<"\n", "\n">> \o FollowUpPrefix

\* the arguments of a follow-up update: None = not given
UpdateArgs ==
    { [severity |-> sev, resolution_notes |-> notes] :
        sev \in {PyNone, PyInt(3), PyInt(11)},
        notes \in {PyNone, PyStr(<<"o", "k">>)} }

\* an update whose notes replace raw_notes
apply_update_replace(sd, args) ==
    LET withSeverity ==
          IF args.severity # PyNone
          THEN [sd EXCEPT !["severity"] = args.severity] ELSE sd
    IN IF Truthy(args.resolution_notes)
       THEN [withSeverity EXCEPT !["raw_notes"] =
               PyStr(FollowUpPrefix \o args.resolution_notes.v)]
       ELSE withSeverity

\* an update that writes severity whether it was given or not
apply_update_overwrite(sd, args) ==
    LET withSeverity == [sd EXCEPT !["severity"] = args.severity]
    IN IF Truthy(args.resolution_notes)
       THEN [withSeverity EXCEPT !["raw_notes"] =
               IF Truthy(@)
               THEN PyStr(@.v \o FollowUpSep \o args.resolution_notes.v)
               ELSE PyStr(FollowUpPrefix \o args.resolution_notes.v)]
       ELSE withSeverity

\* a write that sends only raw_notes and leaves the other stored fields
es_index_partial(stored, doc) == [stored EXCEPT !["raw_notes"] = doc["raw_notes"]]

\* es.index(index, id=event_id, document=doc): the stored document becomes
\* doc as a whole, whatever is stored now
es_index(stored, doc) == doc

\* the in-memory changes to doc["symptom_details"] between the get and the
\* index: severity when given, resolution_notes appended to raw_notes
apply_update(sd, args) ==
    LET withSeverity ==
          IF args.severity # PyNone
          THEN [sd EXCEPT !["severity"] = args.severity] ELSE sd
    IN IF Truthy(args.resolution_notes)
       THEN [withSeverity EXCEPT !["raw_notes"] =
               IF Truthy(@)
               THEN PyStr(@.v \o FollowUpSep \o args.resolution_notes.v)
               ELSE PyStr(FollowUpPrefix \o args.resolution_notes.v)]
       ELSE withSeverity

\* es.get raised instead of returning a document
GetRaised == [t |-> "raised"]

\* a get that answers a missing id with a blank document
es_get_blank(stored, event_id, ok) ==
    IF ~ok THEN GetRaised
    ELSE IF event_id \in DOMAIN stored THEN stored[event_id]
    ELSE Details(PyNone, PyNone, PyNone)

\* existing = await es.get(index, id=event_id); doc = existing["_source"]:
\* the stored document, or an exception when the call fails or no document
\* has that id
es_get(stored, event_id, ok) ==
    IF ok /\ event_id \in DOMAIN stored THEN stored[event_id] ELSE GetRaised

\* the two entry points of the follow-up update
UpdateEntryPoints == {"tool", "impl"}

\* what the caller of an entry point gets from a call that ended with the
\* given status: in the except branch the server tool returns
\* {"status": "error"}, the implementation function logs and re-raises
update_except(via, status) ==
    IF status = "error" /\ via = "impl" THEN "raised" ELSE status

\* update_symptom_entry_impl up to the return of es.get: a missing id or a
\* failed get raises; otherwise the fetched document is changed in memory
UpdateGet(p) ==
    /\ upd[p].pc = "idle"
    /\ updates_left > 0
    /\ updates_left' = updates_left - 1
    /\ \E event_id \in 1..(Len(records) + 1), args \in UpdateArgs,
          ok \in Outcomes :
         LET existing == es_get(records, event_id, ok)
         IN /\ Spend(ok)
            /\ IF existing # GetRaised
               THEN upd' = [upd EXCEPT ![p] =
                      [pc |-> "fetched", event_id |-> event_id, args |-> args,
                       doc |-> apply_update(existing, args),
                       status |-> "none"]]
               ELSE upd' = [upd EXCEPT ![p] =
                      [pc |-> "done", event_id |-> event_id, args |-> args,
                       doc |-> <<>>, status |-> "error"]]
    /\ UNCHANGED <<jury_trigger_modulo, records, counter, reports, saves_left,
                   call, drafts, norm, rev, sides>>

\* es.index(index=es_index, id=event_id, document=doc) returns or raises; a
\* write under an id the store does not hold creates the document
UpdateWrite(p) ==
    /\ upd[p].pc = "fetched"
    /\ \E ok \in Outcomes :
         /\ Spend(ok)
         /\ records' = IF ~ok THEN records
                       ELSE IF upd[p].event_id \in DOMAIN records
                       THEN [records EXCEPT ![upd[p].event_id] =
                               es_index(@, upd[p].doc)]
                       ELSE Append(records, upd[p].doc)
         /\ upd' = [upd EXCEPT ![p] =
              [@ EXCEPT !.pc = "done",
                        !.status = IF ok THEN "updated" ELSE "error"]]
    /\ UNCHANGED <<jury_trigger_modulo, counter, reports, saves_left,
                   updates_left, call, drafts, norm, rev, sides>>

\* the caller takes the result
UpdateReturn(p) ==
    /\ upd[p].pc = "done"
    /\ upd' = [upd EXCEPT ![p] = NoUpdate]
    /\ UNCHANGED <<jury_trigger_modulo, records, counter, reports, saves_left,
                   faults_left, updates_left, call, drafts, norm, rev, sides>>

UpdateStep(p) == UpdateGet(p) \/ UpdateWrite(p) \/ UpdateReturn(p)

\* JURY_MODE 'none' or 'every_1': the audit never runs or always runs
UpdateJuryModes == {[kind |-> "none"], [kind |-> "every", arg |-> PyInt(1)]}

InitUpdate ==
    /\ jury_trigger_modulo \in {ParseJuryMode(m) : m \in UpdateJuryModes}
    /\ EmptyStores
    /\ drafts = SaveDrafts
    /\ saves_left = MaxUpdSaves /\ faults_left = MaxUpdFaults
    /\ updates_left = MaxUpdates
    /\ norm = NoNorm

NextUpdate == Step(1) \/ UpdateStep(1)

\* save calls and follow-up update calls, interleaved at every await
SpecUpdate == InitUpdate /\ [][NextUpdate]_vars

\* the Records found in the store when the process starts: saved earlier
\* with and without raw_notes
StoredRecords ==
    { ensure_raw_notes(clean_entry(BuildDetails(d))) :
        d \in { Details(PyStr(<<"h", "a">>), PyInt(5), PyStr(<<"x">>)),
                Details(PyStr(<<"h", "a">>), PyInt(5), PyNone) } }

\* a store that already holds two Records; only follow-up updates are made
InitFollowUp ==
    /\ jury_trigger_modulo = 0
    /\ records \in [1..2 -> StoredRecords]
    /\ counter = PyInt(2)
    /\ reports = <<>>
    /\ call = [p \in Procs |-> Idle]
    /\ upd = [p \in Procs |-> NoUpdate]
    /\ drafts = SaveDrafts
    /\ saves_left = 0 /\ faults_left = MaxFollowUpFaults
    /\ updates_left = MaxFollowUps
    /\ norm = NoNorm
    /\ rev = NoReview
    /\ sides = NoSides

NextFollowUp == UpdateStep(1)

\* one caller: follow-up updates one after another
SpecFollowUp == InitFollowUp /\ [][NextFollowUp]_vars

NextFollowUpConc == \E p \in Procs : UpdateStep(p)

\* several callers: their follow-up updates interleave at every await
SpecFollowUpConc == InitFollowUp /\ [][NextFollowUpConc]_vars

(* -------------------------- normalizer runs ---------------------------- *)
\* a draft entry: symptom_details with the given values (Absent = no such
\* key), user_id, and environmental (a location) when given
Draft(symptom, severity, raw_notes, associated, description, notes, user_id, location) ==
    LET all == [k \in {"symptom", "severity", "raw_notes",
                       "associated_symptoms", "description", "notes"} |->
                  CASE k = "symptom" -> symptom
                    [] k = "severity" -> severity
                    [] k = "raw_notes" -> raw_notes
                    [] k = "associated_symptoms" -> associated
                    [] k = "description" -> description
                    [] OTHER -> notes]
        sd == [k \in {j \in DOMAIN all : all[j] # Absent} |-> all[k]]
        top == [k \in {"symptom_details", "user_id"} |->
                  IF k = "user_id" THEN user_id ELSE sd]
    IN IF location = Absent THEN top
       ELSE [k \in DOMAIN top \cup {"environmental"} |->
               IF k = "environmental" THEN [j \in {"location"} |-> location]
               ELSE top[k]]

\* the drafts the passes are applied to
NormDrafts ==
    { Draft(sym, PyInt(sev), raw, assoc, desc, notes, top[1], top[2]) :
        sym \in {PyStr(<<"h", "a">>), PyStr(<<" ">>)},
        sev \in {0, 1, 10, 11},
        raw \in {Absent, PyNone, PyStr(<<>>), PyStr(<<" ">>), PyStr(<<"x">>)},
        assoc \in {Absent, PyNone, PyStr(<<"x">>), PyStr(<<"N", "A">>),
                   PyList(<<<<"x">>>>)},
        desc \in {Absent, PyStr(<<" ">>), PyStr(<<" ", "y", " ">>),
                  PyStr(<<"n", "i", "l">>)},
        notes \in {Absent, PyStr(<<"z">>)},
        top \in {<<PyNone, Absent>>,
                 <<PyStr(<<"N", "o", "n", "e">>), PyStr(<<"N", "/", "A">>)>>} }
      \cup {[k \in {"symptom_details", "user_id"} |->
               IF k = "user_id" THEN PyNone ELSE <<>>]}

InitNorm ==
    /\ jury_trigger_modulo = 0
    /\ EmptyStores
    /\ drafts = {}
    /\ saves_left = 0 /\ faults_left = 0 /\ updates_left = 0
    /\ \E d \in NormDrafts :
         norm = [input |-> d, prev |-> d, value |-> d, passes |-> <<>>,
                 valid |-> "unknown"]

\* one more pass applied to the current value
Applied(pass, value, valid) ==
    [norm EXCEPT !.prev = norm.value, !.value = value,
                 !.passes = Append(@, pass), !.valid = valid]

NormStep(pass, value, valid) ==
    /\ Len(norm.passes) < MaxPasses
    /\ norm' = Applied(pass, value, valid)
    /\ UNCHANGED <<jury_trigger_modulo, records, counter, reports, saves_left,
                   faults_left, call, drafts, updates_left, upd, rev,
                   sides>>

\* entry = clean_entry(entry)
NormClean == NormStep("clean", CleanPass(norm.value), "unknown")

\* entry = ensure_raw_notes(entry)
NormEnsure == NormStep("ensure", RawNotesPass(norm.value), "unknown")

\* the two passes as the save path applies them
NormNormalize ==
    NormStep("normalize", RawNotesPass(CleanPass(norm.value)), "unknown")

\* parsed = SymptomEntry(**entry)
NormValidate ==
    NormStep("validate", norm.value,
             IF SymptomEntry(norm.value["symptom_details"])
             THEN "accepted" ELSE "rejected")

NextNorm == NormClean \/ NormEnsure \/ NormNormalize \/ NormValidate

\* the normalizer and the validator applied to drafts, in any order
SpecNorm == InitNorm /\ [][NextNorm]_vars

(* ----------------------------- review call ----------------------------- *)
\* the result of review_symptom_entry_impl on the keyword arguments: the
\* entry is built from the declared parameters, clean_entry is applied, then
\* SymptomEntry(**entry); a validation error is caught and returned as
\* status "error". passes lists the calls made on the entry, in order.
review_symptom_entry_impl(kwargs, strict) ==
    LET entry == clean_entry(BuildDetails(kwargs))
    IN IF strict /\ ~AcceptsParams(kwargs)
       THEN [status |-> "raised", draft |-> kwargs, passes |-> <<>>,
             entry |-> <<>>]
       ELSE [status |-> IF SymptomEntry(entry) THEN "review" ELSE "error",
             draft |-> kwargs,
             passes |-> <<"clean_entry", "SymptomEntry">>,
             entry |-> IF SymptomEntry(entry) THEN entry ELSE <<>>]

\* a review that also stores the entry it accepted
ReviewSymptomEntry_persist ==
    /\ \E d \in drafts : \E strict \in Binding(d) :
         /\ rev' = review_symptom_entry_impl(d, strict)
         /\ records' = IF rev'.status = "review"
                       THEN Append(records, rev'.entry) ELSE records
    /\ UNCHANGED <<jury_trigger_modulo, counter, reports, saves_left,
                   faults_left, call, drafts, updates_left, upd, norm,
                   sides>>

\* one review call: it has no await, so it runs from call to return in one
\* step, and it makes no store or model call
ReviewSymptomEntry ==
    /\ \E d \in drafts : \E strict \in Binding(d) :
         rev' = review_symptom_entry_impl(d, strict)
    /\ UNCHANGED <<jury_trigger_modulo, records, counter, reports, saves_left,
                   faults_left, call, drafts, updates_left, upd, norm,
                   sides>>

\* the drafts reviewed and saved: complete, without raw_notes, with a null
\* token as raw_notes, severity out of range, a null token as symptom, and
\* the text passed as description
ReviewDrafts ==
    { Kwargs(PyStr(<<"h", "a">>), PyInt(5), PyStr(<<"x">>), Absent),
      Kwargs(PyStr(<<"h", "a">>), PyInt(5), Absent, Absent),
      Kwargs(PyStr(<<"h", "a">>), PyInt(5), PyStr(<<"N", "/", "A">>), Absent),
      Kwargs(PyStr(<<"h", "a">>), PyInt(11), PyStr(<<"x">>), Absent),
      Kwargs(PyStr(<<"N", "A">>), PyInt(5), PyStr(<<"x">>), Absent),
      Kwargs(PyStr(<<"h", "a">>), PyInt(5), Absent, SharpPain) }

InitReview ==
    /\ jury_trigger_modulo \in {ParseJuryMode(m) : m \in UpdateJuryModes}
    /\ EmptyStores
    /\ drafts = ReviewDrafts
    /\ saves_left = MaxReviewSaves /\ faults_left = MaxReviewFaults
    /\ updates_left = 0
    /\ norm = NoNorm

NextReview == Step(1) \/ ReviewSymptomEntry

\* one caller: review calls and save calls, a review between any two awaits
\* of a save
SpecReview == InitReview /\ [][NextReview]_vars

(* ------------------- the two save orchestrations ----------------------- *)
\* server.py keeps its own copies of the helpers the save call uses
server_NULL_VALUES ==
    { <<"n", "o", "n", "e">>, <<"n", "u", "l", "l">>, <<"n", "/", "a">>,
      <<"n", "a">>, <<"n", "i", "l">>, <<>> }

\* _is_null_value(value)
server_is_null_value(value) ==
    value.t = "str" /\ Lower(Strip(value.v)) \in server_NULL_VALUES

\* the body of _clean_entry on a non-empty symptom_details
server_clean_entry(sd) ==
    LET nulled == [k \in DOMAIN sd |->
                     IF server_is_null_value(sd[k])
                     THEN (IF k = "associated_symptoms" THEN PyList(<<>>) ELSE PyNone)
                     ELSE sd[k]]
    IN [k \in DOMAIN nulled |->
          IF k = "associated_symptoms" /\ nulled[k].t # "list"
          THEN (IF nulled[k].t = "str" THEN PyList(<<nulled[k].v>>)
                ELSE IF nulled[k].t = "none" THEN PyList(<<>>)
                ELSE nulled[k])
          ELSE nulled[k]]

\* the body of _ensure_raw_notes
server_ensure_raw_notes(sd) ==
    IF "raw_notes" \in DOMAIN sd /\ Truthy(sd["raw_notes"]) THEN sd
    ELSE LET alt == FirstAlt(sd, 1)
         IN IF alt = PyNone THEN sd
            ELSE [k \in DOMAIN sd \cup {"raw_notes"} |->
                    IF k = "raw_notes" THEN alt ELSE sd[k]]

\* _get_es_response_id(resp)
server_get_es_response_id(resp) ==
    IF "_id" \in DOMAIN resp THEN resp["_id"] ELSE PyNone

\* _get_jury_counter(): the stored count, 0 when the get raises
server_get_jury_counter(ok, stored) ==
    IF ok /\ stored.t = "int" THEN stored.v ELSE 0

\* _increment_jury_counter(): new_count = current + 1
server_new_count(current) == current + 1

\* _increment_jury_counter(): new_count after the write, 0 when it raises
server_increment_result(ok, written) == IF ok THEN written ELSE 0

\* the gate of the server tool
server_JuryTriggered(modulo, count) == modulo # 0 /\ PyMod(count, modulo) = 0

\* what a run leaves behind: the store writes in order, the status returned
\* and the jury_reviewed flag
Outcome(writes, status, jury_reviewed) ==
    [writes |-> writes, status |-> status, jury_reviewed |-> jury_reviewed]

\* one store write
Write(index, doc) == [index |-> index, doc |-> doc]

\* which calls of a save return (TRUE) and which raise (FALSE)
FailurePatterns ==
    [record : BOOLEAN, has_id : BOOLEAN, read : BOOLEAN, write : BOOLEAN,
     panel : [Panel -> BOOLEAN], aggregation : BOOLEAN, report : BOOLEAN]

\* llm_jury_compare_notes run to its end under a failure pattern: the report
\* write if it is reached, and how the call ended
llm_jury_compare_notes(event_id, pattern, ctx) ==
    LET tasks == [i \in Panel |-> call_jury_model(JURY_MODELS[i], pattern.panel[i])]
        outputs == gather(tasks, [i \in Panel |-> i])
    IN IF (\E i \in Panel : ~pattern.panel[i]) /\ CtxErrorRaises(ctx)
       THEN [writes |-> <<>>, jury_status |-> llm_jury_except(ctx)]
       ELSE IF ~pattern.aggregation \/ ~pattern.report
       THEN [writes |-> <<>>, jury_status |-> llm_jury_except(ctx)]
       ELSE [writes |-> <<Write("reports", Report(event_id, outputs))>>,
             jury_status |-> "jury_completed"]

\* confirm_and_save_symptom_entry_impl run from call to return
confirm_and_save_symptom_entry_impl(in) ==
    LET entry == ensure_raw_notes(clean_entry(BuildDetails(in.draft)))
        resp == IF in.pattern.has_id
                THEN [k \in {"_id"} |-> PyInt(in.stored + 1)]
                ELSE [k \in {"result"} |-> PyInt(in.stored + 1)]
        current == get_jury_counter(in.pattern.read, in.counter)
        written == new_count(current)
        jury_trigger_count == increment_result(in.pattern.write, written)
        counted == <<Write("records", entry)>> \o
                   (IF in.pattern.write
                    THEN <<Write("counter", counter_doc(written, in.counter))>>
                    ELSE <<>>)
        event_id == get_es_response_id(resp)
        jury == llm_jury_compare_notes(event_id, in.pattern, in.ctx)
    IN IF in.strict /\ ~AcceptsParams(in.draft)
       THEN Outcome(<<>>, "raised", FALSE)
       ELSE IF ~SymptomEntry(entry) \/ ~in.pattern.record
       THEN Outcome(<<>>, "error", FALSE)
       ELSE IF JuryTriggered(in.modulo, jury_trigger_count) /\ Truthy(event_id)
       THEN Outcome(counted \o jury.writes, SavedStatus(jury.jury_status),
                    JuryReviewed(jury.jury_status))
       ELSE Outcome(counted, SavedStatus("none"), FALSE)

\* the server tool confirm_and_save_symptom_entry run from call to return
confirm_and_save_symptom_entry(in) ==
    LET entry == server_ensure_raw_notes(server_clean_entry(BuildDetails(in.draft)))
        resp == IF in.pattern.has_id
                THEN [k \in {"_id"} |-> PyInt(in.stored + 1)]
                ELSE [k \in {"result"} |-> PyInt(in.stored + 1)]
        current == server_get_jury_counter(in.pattern.read, in.counter)
        written == server_new_count(current)
        jury_trigger_count == server_increment_result(in.pattern.write, written)
        counted == <<Write("records", entry)>> \o
                   (IF in.pattern.write
                    THEN <<Write("counter", PyInt(written))>> ELSE <<>>)
        event_id == server_get_es_response_id(resp)
        jury == llm_jury_compare_notes(event_id, in.pattern, in.ctx)
    IN IF in.strict /\ ~AcceptsParams(in.draft)
       THEN Outcome(<<>>, "raised", FALSE)
       ELSE IF ~SymptomEntry(entry) \/ ~in.pattern.record
       THEN Outcome(<<>>, "error", FALSE)
       ELSE IF server_JuryTriggered(in.modulo, jury_trigger_count) /\ Truthy(event_id)
       THEN Outcome(counted \o jury.writes, "saved",
                    jury.jury_status \in {"jury_completed", "error"})
       ELSE Outcome(counted, "saved", FALSE)

\* what is stored under global_counter before the run: nothing, or a count
StoredCounts == {PyNone} \cup {PyInt(n) : n \in 0..MaxStoredCount}

\* the same draft, modulus, store state and failure pattern for both sides
InitSides ==
    /\ jury_trigger_modulo \in {ParseJuryMode(m) : m \in JuryModes}
    /\ records = <<>> /\ reports = <<>>
    /\ counter \in StoredCounts
    /\ call = [p \in Procs |-> Idle]
    /\ upd = [p \in Procs |-> NoUpdate]
    /\ drafts = ReviewDrafts
    /\ saves_left = 0 /\ faults_left = 0 /\ updates_left = 0
    /\ norm = NoNorm /\ rev = NoReview
    /\ \E d \in drafts, pattern \in FailurePatterns, ctx \in BOOLEAN,
          strict \in BOOLEAN, stored \in 0..MaxStoredCount :
         sides = [pc |-> "ready",
                  in |-> [draft |-> d, modulo |-> jury_trigger_modulo,
                          counter |-> counter, stored |-> stored,
                          pattern |-> pattern, ctx |-> ctx, strict |-> strict]]

\* both orchestrations are run on the input
RunSides ==
    /\ sides.pc = "ready"
    /\ sides' = [pc |-> "done", in |-> sides.in,
                 impl |-> confirm_and_save_symptom_entry_impl(sides.in),
                 server |-> confirm_and_save_symptom_entry(sides.in)]
    /\ UNCHANGED <<jury_trigger_modulo, records, counter, reports, saves_left,
                   faults_left, call, drafts, updates_left, upd, norm, rev>>

NextSides == RunSides

\* the two save orchestrations side by side on every input
SpecSides == InitSides /\ [][NextSides]_vars

TypeOK ==
    /\ saves_left \in 0..MaxSeqSaves
    /\ faults_left \in 0..MaxFaults
    /\ counter.t \in {"none", "int"}
    /\ \A p \in Procs : call[p].pc \in
         {"idle", "persisted", "counter_read", "panel", "aggregate", "report", "done"}

(* ------------------------------ claims --------------------------------- *)
\* the Record write of the call returned: the call holds the store's response
Persisted(c) == c.resp # <<>>
\* the increment has returned and the gate has been evaluated
Gated(c) == Persisted(c) /\ c.pc \in {"panel", "aggregate", "report", "done"}
\* the jury pipeline was entered: the panel calls were made
AuditStarted(c) == c.tasks # <<>>

\* C1: with modulus 3, a fresh counter and sequential saves without failures,
\* the audit runs on the 3rd, 6th, ... saved Record and on no other: a saved
\* call has run the audit exactly when its Record is a multiple-of-3-th one,
\* and the i-th Audit Report is about Record 3i.
C1_AuditGating ==
    jury_trigger_modulo = 3 =>
      /\ \A p \in Procs :
           Gated(call[p]) =>
             /\ AuditStarted(call[p]) <=> (Len(records) % 3 = 0)
             /\ call[p].pc = "done" =>
                  (call[p].jury_reviewed <=> (Len(records) % 3 = 0))
      /\ \A i \in DOMAIN reports : reports[i].event_id = PyInt(3 * i)

C1_Witness ==
    /\ jury_trigger_modulo = 3
    /\ Len(records) = 6
    /\ Len(reports) = 2
    /\ call[1].pc = "done" /\ call[1].jury_reviewed

\* C2: if the aggregation call raises during a triggered audit, the save
\* returns status "saved" with jury_reviewed false and the Record is stored.
C2_AggregationFailureNotReviewed ==
    \A p \in Procs :
      (call[p].pc = "done" /\ call[p].faults = {"aggregation"}) =>
        /\ call[p].status = "saved"
        /\ call[p].jury_reviewed = FALSE
        /\ Len(records) >= 1

\* C3: once the Record write has succeeded the save returns status "saved",
\* whichever later step fails.
C3_SavedAfterPersist ==
    \A p \in Procs :
      (call[p].pc = "done" /\ Persisted(call[p])) => call[p].status = "saved"

C3_Witness ==
    \E p \in Procs :
      /\ call[p].pc = "done" /\ Persisted(call[p])
      /\ call[p].status = "saved"
      /\ {"read", "panel"} \subseteq call[p].faults
      /\ call[p].jury_status = "raised"

\* a draft the validator rejects: severity outside 1..10, or a symptom that
\* is a null token (cleaned to None, which the required field refuses)
RejectedDraft(d) ==
    \/ d["severity"].v < 1
    \/ d["severity"].v > 10
    \/ d["symptom"] = PyStr(<<"N", "A">>)

\* C4: a save whose draft fails validation returns status "error" in its
\* first step and that step changes no store; it calls no model.
C4_ValidationFailureNoEffect ==
    [][\A p \in Procs :
         (call[p].pc = "idle" /\ call'[p].pc # "idle"
            /\ RejectedDraft(call'[p].draft)) =>
           /\ call'[p].pc = "done"
           /\ call'[p].status = "error"
           /\ ~AuditStarted(call'[p]) /\ ~call'[p].agg_called
           /\ UNCHANGED <<records, counter, reports>>]_vars

C4_Witness ==
    \E p \in Procs :
      /\ call[p].pc = "done" /\ call[p].status = "error"
      /\ RejectedDraft(call[p].draft)
      /\ Len(records) = 2 /\ counter = PyInt(2) /\ Len(reports) >= 1

\* C5: a save whose Record write fails returns status "error" at once: the
\* call never reads or writes the counter, calls no model, writes no report.
C5_PersistFailureStops ==
    [][\A p \in Procs :
         "persist" \in call'[p].faults =>
           /\ call'[p].pc = "done"
           /\ call'[p].status = "error"
           /\ ~AuditStarted(call'[p]) /\ ~call'[p].agg_called
           /\ call[p].pc = "idle" => UNCHANGED <<records, counter, reports>>]_vars

C5_Witness ==
    \E p \in Procs :
      /\ call[p].pc = "done" /\ call[p].status = "error"
      /\ "persist" \in call[p].faults
      /\ Len(records) = 2 /\ counter = PyInt(2)

\* C6: whatever panel members raise, with or without a logging context, a
\* dispatched panel ends with one outcome per member (success exactly for
\* the members that returned) and the aggregation call is made with them.
C6_PanelFailureTolerated ==
    \A p \in Procs :
      (call[p].pc = "done" /\ AuditStarted(call[p])
         /\ call[p].faults \subseteq {"panel"}) =>
        /\ call[p].agg_called
        /\ Len(call[p].jury_outputs) = Len(JURY_MODELS)
        /\ \A i \in Panel :
             call[p].jury_outputs[i].success = call[p].tasks[i].success

\* C7: the panel outcomes returned by the dispatch and stored in the Audit
\* Report are in the declared order: the i-th carries the i-th model id.
C7_PanelOrder ==
    /\ \A p \in Procs :
         call[p].agg_called =>
           /\ Len(call[p].jury_outputs) = Len(JURY_MODELS)
           /\ \A i \in Panel : call[p].jury_outputs[i].model_id = JURY_MODELS[i]
    /\ \A r \in DOMAIN reports :
         /\ Len(reports[r].jury_outputs) = Len(JURY_MODELS)
         /\ \A i \in Panel :
              reports[r].jury_outputs[i].model_id = reports[r].jury_models[i]

C7_Witness ==
    \E p \in Procs :
      /\ call[p].pc = "done" /\ call[p].jury_status = "jury_completed"
      /\ call[p].finished = <<3, 1, 2>>
      /\ Len(reports) >= 1

\* C8: the first read of a never-written counter gives 0, and with
\* sequential increments and no failure the k-th increment (the one made by
\* the save of the k-th Record) returns k and leaves k stored.
C8_SequentialCounter ==
    \A p \in Procs :
      /\ (call[p].pc = "counter_read" /\ counter = PyNone) => call[p].current = 0
      /\ call[p].pc = "counter_read" => call[p].current = Len(records) - 1
      /\ Gated(call[p]) =>
           /\ call[p].jury_trigger_count = Len(records)
           /\ counter = PyInt(Len(records))

C8_Witness ==
    /\ call[1].pc = "done"
    /\ call[1].jury_trigger_count = 5
    /\ counter = PyInt(5)

\* C9: increment returns 0 whenever the read or the write of the counter
\* fails.
C9_IncrementZeroOnAnyFailure ==
    \A p \in Procs :
      (Gated(call[p]) /\ call[p].faults # {}
         /\ call[p].faults \subseteq {"read", "write"}) =>
        call[p].jury_trigger_count = 0

\* C10: when the increment fails and yields 0, a save with a positive
\* modulus does not run the audit.
C10_NoAuditOnCounterFailure ==
    \A p \in Procs :
      (Gated(call[p]) /\ call[p].faults = {"write"}
         /\ call[p].jury_trigger_count = 0 /\ jury_trigger_modulo > 0) =>
        /\ ~AuditStarted(call[p])
        /\ ~call[p].jury_reviewed

\* C11: the stored counter value never decreases as a result of save
\* calls, whatever calls fail.
C11_CounterNeverDecreases ==
    [][(counter.t = "int" /\ counter'.t = "int") => counter'.v >= counter.v]_vars

\* C12: with modulus 0 no save ever runs the audit: no panel or aggregation
\* call is made, no Audit Report is written and the audit-ran flag is false.
C12_ZeroModulusNoAudit ==
    jury_trigger_modulo = 0 =>
      /\ reports = <<>>
      /\ \A p \in Procs :
           /\ ~AuditStarted(call[p])
           /\ ~call[p].agg_called
           /\ ~call[p].jury_reviewed

C12_Witness ==
    /\ jury_trigger_modulo = 0
    /\ call[1].pc = "done" /\ call[1].status = "saved"
    /\ call[1].faults = {}
    /\ Len(records) = 2

\* C13 (as stated): with modulus 0 a successful save skips the counter step:
\* the counter is neither read nor written.
C13_ZeroModulusSkipsCounter ==
    jury_trigger_modulo = 0 =>
      /\ counter = PyNone
      /\ \A p \in Procs : call[p].pc # "counter_read"

\* C13 (amended): with modulus 0 a successful save still reads the counter
\* and writes it incremented by one; only the audit is skipped.
C13_ZeroModulusStillCounts ==
    \A p \in Procs :
      (jury_trigger_modulo = 0 /\ Gated(call[p])
         /\ "write" \notin call[p].faults) =>
        /\ counter = PyInt(call[p].current + 1)
        /\ call[p].jury_trigger_count = call[p].current + 1
        /\ ~AuditStarted(call[p])

C13_Witness ==
    /\ jury_trigger_modulo = 0
    /\ call[1].pc = "done" /\ call[1].status = "saved"
    /\ call[1].faults = {}
    /\ call[1].current = 1
    /\ counter = PyInt(2)

\* the pass applied last
LastPass == IF norm.passes = <<>> THEN "none" ELSE norm.passes[Len(norm.passes)]
\* a recognized null token, compared case-insensitively
NullToken(v) == v.t = "str" /\ Lower(v.v) \in NULL_VALUES
\* null, empty or whitespace-only, or no such key
BlankIn(sd, k) ==
    k \notin DOMAIN sd \/ sd[k].t = "none"
      \/ (sd[k].t = "str" /\ Strip(sd[k].v) = <<>>)

\* C14: normalization is idempotent: applying the composite (null-token pass
\* then raw-notes pass) twice gives the same draft as applying it once, and
\* so does each of the two passes taken alone.
C14_NormalizationIdempotent ==
    (/\ Len(norm.passes) >= 2
     /\ LastPass \in {"clean", "ensure", "normalize"}
     /\ norm.passes[Len(norm.passes) - 1] = LastPass) =>
      norm.value = norm.prev

C14_Witness ==
    /\ norm.passes = <<"normalize", "normalize">>
    /\ {"raw_notes", "associated_symptoms"} \subseteq
         DOMAIN norm.input["symptom_details"]
    /\ norm.input["symptom_details"]["raw_notes"] = PyStr(<<" ">>)
    /\ norm.input["symptom_details"]["associated_symptoms"] = PyStr(<<"N", "A">>)
    /\ norm.value["symptom_details"]["raw_notes"] = PyStr(<<"y">>)
    /\ norm.value["symptom_details"]["associated_symptoms"] = PyList(<<>>)

\* C15: for every null token and every field, at the top level, in the
\* symptom details or in the environmental group, the null-token pass gives
\* the empty list for associated_symptoms and null for any other field.
C15_NullTokenEveryField ==
    LastPass = "clean" =>
      /\ \A k \in DOMAIN norm.prev["symptom_details"] :
           NullToken(norm.prev["symptom_details"][k]) =>
             norm.value["symptom_details"][k] =
               IF k = "associated_symptoms" THEN PyList(<<>>) ELSE PyNone
      /\ NullToken(norm.prev["user_id"]) => norm.value["user_id"] = PyNone
      /\ "environmental" \in DOMAIN norm.prev =>
           \A k \in DOMAIN norm.prev["environmental"] :
             NullToken(norm.prev["environmental"][k]) =>
               norm.value["environmental"][k] = PyNone

\* C16: after the null-token pass associated_symptoms is a list in all
\* cases: a bare string s gives [s], null gives [], and an absent key
\* becomes present and empty.
C16_AssociatedAlwaysList ==
    (LastPass = "clean" /\ DOMAIN norm.prev["symptom_details"] # {}) =>
      LET before == norm.prev["symptom_details"]
          after == norm.value["symptom_details"]
      IN /\ "associated_symptoms" \in DOMAIN after
         /\ after["associated_symptoms"].t = "list"
         /\ "associated_symptoms" \notin DOMAIN before =>
              after["associated_symptoms"] = PyList(<<>>)
         /\ "associated_symptoms" \in DOMAIN before =>
              /\ before["associated_symptoms"].t = "none" =>
                   after["associated_symptoms"] = PyList(<<>>)
              /\ (before["associated_symptoms"].t = "str"
                     /\ ~is_null_value(before["associated_symptoms"])) =>
                   after["associated_symptoms"] =
                     PyList(<<before["associated_symptoms"].v>>)

\* C17: when raw_notes is absent or blank (null, empty or whitespace-only)
\* the raw-notes pass sets it to the trimmed first non-blank string among
\* description, notes, summary, context; a non-blank raw_notes is unchanged;
\* with no non-blank alternate the draft stays as it was.
C17_RawNotesFallback ==
    LastPass = "ensure" =>
      LET before == norm.prev["symptom_details"]
          after == norm.value["symptom_details"]
          alt == FirstAlt(before, 1)
      IN IF BlankIn(before, "raw_notes") /\ alt # PyNone
         THEN "raw_notes" \in DOMAIN after /\ after["raw_notes"] = alt
         ELSE after = before

\* C19: validation accepts an integer severity exactly when it is in 1..10:
\* 1 and 10 are accepted, 0 and 11 are rejected.
C19_SeverityBounds ==
    LET sd == norm.value["symptom_details"]
    IN (/\ LastPass = "validate"
        /\ "symptom" \in DOMAIN sd /\ sd["symptom"].t = "str"
        /\ "associated_symptoms" \in DOMAIN sd =>
             sd["associated_symptoms"].t \in {"none", "list"}) =>
         (norm.valid = "accepted" <=> sd["severity"].v \in 1..10)

C19_Witness ==
    /\ norm.passes = <<"validate">>
    /\ norm.valid = "accepted"
    /\ norm.value["symptom_details"]["severity"] = PyInt(10)

\* C18: a save of severity 9 with no raw_notes and description "sharp pain",
\* modulus 1 and no failures, returns saved with the audit run; the Record
\* stored has raw_notes "sharp pain" and exactly one Audit Report references
\* the Record's id.
C18_ScenarioDescriptionSaved ==
    \A p \in Procs :
      (/\ jury_trigger_modulo = 1
       /\ call[p].pc = "done"
       /\ call[p].draft = Kwargs(PyStr(<<"h", "a">>), PyInt(9), Absent, SharpPain)) =>
        /\ call[p].status = "saved"
        /\ call[p].jury_reviewed
        /\ LET event_id == get_es_response_id(call[p].resp)
           IN /\ records[event_id.v]["raw_notes"] = SharpPain
              /\ Cardinality({i \in DOMAIN reports :
                                reports[i].event_id = event_id}) = 1

\* C20: after any sequence of save and follow-up update calls, every stored
\* Record has severity in 1..10 and a symptom that is non-empty after
\* trimming.
C20_StoredRecordsValid ==
    \A i \in DOMAIN records :
      /\ records[i]["severity"].t = "int"
      /\ records[i]["severity"].v \in 1..10
      /\ records[i]["symptom"].t = "str"
      /\ Strip(records[i]["symptom"].v) # <<>>

\* C24: whatever the cadence setting, the modulus derived from it at process
\* start is 0 or a positive integer, never negative.
C24_ModulusNonNegative == jury_trigger_modulo >= 0

\* the follow-up update of caller p has just written its document
UpdateWritten(p) ==
    upd[p].pc = "fetched" /\ upd'[p].pc = "done" /\ upd'[p].status = "updated"

\* C21: a follow-up update with non-empty resolution notes on a Record whose
\* raw_notes is non-empty leaves raw_notes starting with the original text,
\* character for character, followed by the appended follow-up text ending
\* in the notes given; this for every update of a succession.
C21_FollowUpAppends ==
    [][\A p \in Procs :
         LET before == records[upd[p].event_id]["raw_notes"]
             after == records'[upd[p].event_id]["raw_notes"]
             notes == upd[p].args.resolution_notes
         IN (UpdateWritten(p) /\ Truthy(notes) /\ Truthy(before)) =>
              /\ after.t = "str"
              /\ Len(after.v) = Len(before.v) + Len(FollowUpSep) + Len(notes.v)
              /\ SubSeq(after.v, 1, Len(before.v)) = before.v
              /\ SubSeq(after.v, Len(after.v) - Len(notes.v) + 1, Len(after.v))
                   = notes.v]_vars

\* the second update of a succession has appended to the first one's text
C21_Witness ==
    /\ upd[1].pc = "done" /\ upd[1].status = "updated"
    /\ updates_left = 0
    /\ records[1]["raw_notes"] =
         PyStr(<<"x">> \o FollowUpSep \o <<"o", "k">> \o FollowUpSep \o <<"o", "k">>)

C29_LastWriterWins ==
    [][\A p \in Procs :
         UpdateWritten(p) => records'[upd[p].event_id] = upd[p].doc]_vars

\* both callers read the same version of Record 1; caller 1 wrote severity 3
\* first, caller 2 wrote its notes last: the severity change is lost
C29_Witness ==
    /\ upd[1].pc = "done" /\ upd[1].status = "updated" /\ upd[1].event_id = 1
    /\ upd[2].pc = "done" /\ upd[2].status = "updated" /\ upd[2].event_id = 1
    /\ upd[1].args = [severity |-> PyInt(3), resolution_notes |-> PyNone]
    /\ upd[2].args = [severity |-> PyNone, resolution_notes |-> PyStr(<<"o", "k">>)]
    /\ \E r \in StoredRecords :
         /\ upd[1].doc = apply_update(r, upd[1].args)
         /\ upd[2].doc = apply_update(r, upd[2].args)
    /\ records[1] = upd[2].doc
    /\ records[1]["severity"] = PyInt(5)

\* C27: within one audit the aggregation call is started only after every
\* panel call has returned or failed, it is made once, and the Audit Report
\* is written only after the aggregation call has returned.
C27_JoinThenAggregateThenReport ==
    [][/\ \A p \in Procs :
            /\ (call'[p].pc = "aggregate" /\ call[p].pc # "aggregate") =>
                 /\ call[p].pc = "panel"
                 /\ ~call[p].agg_called
                 /\ \A j \in Panel : call'[p].tasks[j] # Pending
            /\ (call'[p].agg_called /\ ~call[p].agg_called) =>
                 call'[p].pc = "aggregate"
            /\ (call'[p].pc = "report" /\ call[p].pc # "report") =>
                 call[p].pc = "aggregate"
       /\ reports' # reports =>
            \E p \in Procs : call[p].pc = "report" /\ call[p].agg_called]_vars

\* a report written after a panel in which one call failed
C27_Witness ==
    /\ call[1].pc = "done"
    /\ call[1].jury_status = "jury_completed"
    /\ call[1].faults = {"panel"}
    /\ call[1].agg_called
    /\ Len(reports) = 1

\* the position in the store of the Record the call's write returned
RecordOf(c) ==
    IF "_id" \in DOMAIN c.resp THEN c.resp["_id"].v ELSE c.resp["result"].v

\* C28: within one save call the steps happen in a fixed order: a Record is
\* written only once validated, the counter is read and written only after
\* the Record write has completed, and the gate and the model calls come
\* only with the return of the increment.
C28_SaveStepOrder ==
    [][/\ records' # records =>
            /\ records' = Append(records, records'[Len(records')])
            /\ records'[Len(records')]["severity"].v \in 1..10
            /\ records'[Len(records')]["symptom"].t = "str"
            /\ \E p \in Procs : call[p].pc = "idle" /\ call'[p].pc = "persisted"
       /\ counter' # counter =>
            \E p \in Procs : call[p].pc = "counter_read" /\ Persisted(call[p])
       /\ \A p \in Procs :
            /\ (call'[p].pc = "counter_read" /\ call[p].pc # "counter_read") =>
                 /\ call[p].pc = "persisted"
                 /\ RecordOf(call[p]) \in DOMAIN records
            /\ (AuditStarted(call'[p]) /\ ~AuditStarted(call[p])) =>
                 /\ call[p].pc = "counter_read"
                 /\ call'[p].pc = "panel"]_vars

\* a call that has gone through validation, Record write, increment and gate
C28_Witness ==
    /\ call[1].pc = "panel"
    /\ call[1].faults = {}
    /\ call[1].jury_trigger_count = 2
    /\ counter = PyInt(2)
    /\ Len(records) = 2

\* C23: Audit Reports are append-only: an audit that runs to completion adds
\* exactly one new Audit Report, about its own Record, and no save, update
\* or audit step changes or removes a report already stored.
C23_ReportsAppendOnly ==
    [][/\ reports' # reports =>
            /\ Len(reports') = Len(reports) + 1
            /\ SubSeq(reports', 1, Len(reports)) = reports
            /\ \E p \in Procs :
                 call[p].pc = "report" /\ call'[p].jury_status = "jury_completed"
       /\ \A p \in Procs :
            (call[p].pc = "report" /\ call'[p].jury_status = "jury_completed") =>
              /\ Len(reports') = Len(reports) + 1
              /\ reports'[Len(reports')].event_id =
                   get_es_response_id(call[p].resp)]_vars

\* two audits have completed and an update has been written since
C23_Witness ==
    /\ Len(reports) = 2
    /\ reports[1].event_id = PyInt(1) /\ reports[2].event_id = PyInt(2)
    /\ upd[1].pc = "done" /\ upd[1].status = "updated"

\* C25: the increment is not atomic: its write stores, and it returns, the
\* value it read plus one whatever the store holds by then; so two concurrent
\* increments that both read N both write and return N+1, and the stored
\* value after the two is N+1.
C25_IncrementNotAtomic ==
    [][\A p \in Procs :
         (call[p].pc = "counter_read" /\ call'[p].pc # "counter_read"
            /\ "write" \notin call'[p].faults) =>
           /\ counter' = PyInt(call[p].current + 1)
           /\ call'[p].jury_trigger_count = call[p].current + 1]_vars

\* both increments read 0 (N = 0), both returned 1, and 1 is stored
C25_Witness ==
    /\ Gated(call[1]) /\ Gated(call[2])
    /\ call[1].current = 0 /\ call[2].current = 0
    /\ call[1].jury_trigger_count = 1 /\ call[2].jury_trigger_count = 1
    /\ counter = PyInt(1)
    /\ Len(records) = 2

\* C26: with a positive modulus N and no failures, under any interleaving of
\* concurrent saves, every save whose increment wrote a positive multiple of
\* N runs the audit for its own Record; two racing saves that obtain the
\* same multiple both run it.
C26_AuditAtLeastOnce ==
    \A p \in Procs :
      (/\ jury_trigger_modulo > 0
       /\ Gated(call[p])
       /\ call[p].jury_trigger_count > 0
       /\ call[p].jury_trigger_count % jury_trigger_modulo = 0) =>
        /\ AuditStarted(call[p])
        /\ call[p].pc = "done" =>
             /\ call[p].jury_reviewed
             /\ \E i \in DOMAIN reports :
                  reports[i].event_id = get_es_response_id(call[p].resp)

\* two racing saves both obtained 1 with modulus 1 and both ran the audit
C26_Witness ==
    /\ jury_trigger_modulo = 1
    /\ call[1].pc = "done" /\ call[2].pc = "done"
    /\ call[1].jury_trigger_count = 1 /\ call[2].jury_trigger_count = 1
    /\ call[1].jury_reviewed /\ call[2].jury_reviewed
    /\ Len(reports) = 2
    /\ reports[1].event_id # reports[2].event_id

\* C30: every save call terminates: provided each awaited call eventually
\* returns or fails, a started call reaches a terminal state, Done (status
\* "saved") or Rejected (status "error"), and Rejected only from a
\* validation or primary-persistence failure.
C30_SaveTerminates ==
    /\ [](\A p \in Procs :
            call[p].pc = "done" =>
              /\ call[p].status \in {"saved", "error"}
              /\ call[p].status = "error" =>
                   call[p].faults \in {{"validation"}, {"persist"}})
    /\ \A p \in Procs :
         (call[p].pc \notin {"idle", "done"}) ~> (call[p].pc = "done")

\* a call that ended Done although its audit raised
C30_Witness ==
    /\ call[1].pc = "done"
    /\ call[1].status = "saved"
    /\ call[1].jury_status = "raised"
    /\ call[1].faults = {"aggregation"}

(* ------------------------- audit report tallies ------------------------ *)
\* the panel outputs of a stored report whose success flag is b
OutcomesWith(r, b) == {i \in DOMAIN r.jury_outputs : r.jury_outputs[i].success = b}

\* C31: in every persisted Audit Report, success_count is the number of panel
\* outcomes that succeeded, failure_count the number that failed, and the two
\* add up to the size of the panel
C31_ReportTallies ==
    \A k \in DOMAIN reports :
        /\ reports[k].successful_models_count = Cardinality(OutcomesWith(reports[k], TRUE))
        /\ reports[k].failed_models_count = Cardinality(OutcomesWith(reports[k], FALSE))
        /\ reports[k].successful_models_count + reports[k].failed_models_count
             = Len(JURY_MODELS)
        /\ Len(reports[k].jury_outputs) = Len(JURY_MODELS)

\* a stored report of a panel with both a failed and a successful member
C31_Witness ==
    \E k \in DOMAIN reports :
        /\ reports[k].failed_models_count > 0
        /\ reports[k].successful_models_count > 0
        /\ OutcomesWith(reports[k], FALSE) # {}

\* the reports stored about the Record the call's write returned
ReportsAbout(c, stored) ==
    {k \in DOMAIN stored : stored[k].event_id = PyInt(RecordOf(c))}

\* C32: an Audit Report is written only in an audit whose aggregation call
\* succeeded, and it refers to the id the store gave the Record the same save
\* call persisted; a save whose aggregation call failed has no report
C32_ReportOnlyAfterAggregation ==
    [][/\ reports' # reports =>
            \E p \in Procs :
                /\ call[p].pc = "report"
                /\ call[p].agg_called
                /\ "aggregation" \notin call'[p].faults
                /\ reports' = Append(reports, reports'[Len(reports')])
                /\ reports'[Len(reports')].event_id = call[p].resp["_id"]
                /\ RecordOf(call[p]) \in DOMAIN records
                /\ records[RecordOf(call[p])]
                     = ensure_raw_notes(clean_entry(BuildDetails(call[p].draft)))
       /\ \A p \in Procs :
            "aggregation" \in call'[p].faults =>
                ReportsAbout(call'[p], reports') = {}]_vars

\* a first save whose audit stored its report, then a second save whose
\* aggregation call failed
C32_Witness ==
    /\ Len(records) = 2
    /\ Len(reports) = 1
    /\ reports[1].event_id = PyInt(1)
    /\ call[1].pc = "done"
    /\ call[1].faults = {"aggregation"}
    /\ RecordOf(call[1]) = 2

\* the call is inside llm_jury_compare_notes
InPipeline(c) == c.pc \in {"panel", "aggregate", "report"}

\* C33: the jury pipeline, whether it completes or fails at any point, leaves
\* the persisted Record and the Trigger Counter as they are: the only store
\* write it makes is the append of one Audit Report
C33_PipelineFrame ==
    [][/\ \A p \in Procs :
            InPipeline(call[p]) =>
              /\ records' = records
              /\ counter' = counter
              /\ ReportsAbout(call[p], reports) = {}
              /\ \/ reports' = reports
                 \/ /\ reports' = Append(reports, reports'[Len(reports')])
                    /\ ~InPipeline(call'[p])
       /\ (\A p \in Procs : ~InPipeline(call[p])) => reports' = reports]_vars

\* one audit ran to its report, the next one failed at the report write: the
\* Records and the counter are those the two saves left
C33_Witness ==
    /\ call[1].pc = "done"
    /\ call[1].faults = {"report"}
    /\ call[1].agg_called
    /\ Len(records) = 2
    /\ counter = PyInt(2)
    /\ Len(reports) = 1

\* the review and a save call of the same draft agree: the same verdict of
\* the validator, and the Record the save stored is the entry the review
\* returned
ReviewMatchesSave ==
    \A p \in Procs :
        (/\ rev.status \in {"review", "error"}
         /\ call[p].pc # "idle"
         /\ call[p].draft = rev.draft
         /\ call[p].status # "raised") =>
            /\ (rev.status = "error") <=> (call[p].faults = {"validation"})
            /\ (Persisted(call[p]) /\ RecordOf(call[p]) \in DOMAIN records) =>
                 records[RecordOf(call[p])] = rev.entry

\* C34: in the review call and in the save call, null-token canonicalization
\* and the raw-notes fallback are both applied before schema validation, so
\* the two validate and return the same normalized entry for the same draft
C34_BothPassesBeforeValidation ==
    /\ rev.status \in {"review", "error"} =>
         rev.passes = <<"clean_entry", "ensure_raw_notes", "SymptomEntry">>
    /\ ReviewMatchesSave

\* C36: the review call has no effect on stored state: whether it returns
\* "review" or "error" it writes no Record, leaves the Trigger Counter alone,
\* calls no model and writes no Audit Report
C36_ReviewFrame ==
    [][rev' # rev =>
         /\ rev'.status \in {"review", "error", "raised"}
         /\ UNCHANGED <<records, counter, reports, call, faults_left,
                        saves_left>>]_vars

\* a draft reviewed while a save call is waiting for its panel: the stores
\* hold what the save wrote
C36_Witness ==
    /\ rev.status = "review"
    /\ call[1].pc = "panel"
    /\ Len(records) = 1
    /\ counter = PyInt(1)

\* the stored reports that refer to Record id
ReportsOf(id) == {k \in DOMAIN reports : reports[k].event_id = PyInt(id)}

\* C35: no Record ever has more than one Audit Report: in every reachable
\* state, for any interleaving of save calls, at most one stored report
\* refers to any given Record id, and every report refers to a stored Record
C35_OneReportPerRecord ==
    /\ \A id \in DOMAIN records : Cardinality(ReportsOf(id)) <= 1
    /\ \A k \in DOMAIN reports :
         /\ reports[k].event_id.t = "int"
         /\ reports[k].event_id.v \in DOMAIN records
    /\ \A p, q \in Procs :
         (p # q /\ InPipeline(call[p]) /\ InPipeline(call[q])) =>
             RecordOf(call[p]) # RecordOf(call[q])

\* two interleaved save calls, both audited: the report about the second
\* Record was stored before the report about the first
C35_Witness ==
    /\ Len(reports) = 2
    /\ reports[1].event_id = PyInt(2)
    /\ reports[2].event_id = PyInt(1)

\* C37: a follow-up update whose event id matches no stored Record fails
\* (error status from the server tool, exception from the implementation
\* function) and changes nothing: no Record is created under that id and no
\* existing Record is modified
C37_MissingIdNoEffect ==
    [][\A p \in Procs :
         (/\ upd[p].pc = "idle" /\ upd'[p].pc # "idle"
          /\ upd'[p].event_id \notin DOMAIN records) =>
            /\ upd'[p].pc = "done"
            /\ update_except("tool", upd'[p].status) = "error"
            /\ update_except("impl", upd'[p].status) = "raised"
            /\ records' = records]_vars

\* an update of id 3 in a store of two Records has failed, after an update
\* of a stored Record went through
C37_Witness ==
    /\ upd[1].pc = "done"
    /\ upd[1].event_id = 3
    /\ upd[1].status = "error"
    /\ Len(records) = 2
    /\ updates_left = 0
    /\ \E i \in DOMAIN records : Truthy(records[i]["raw_notes"])
         /\ Len(records[i]["raw_notes"].v) > Len(FollowUpPrefix)

\* the store's response to the call's Record write carries no id
NoIdExtracted(c) == Persisted(c) /\ "_id" \notin DOMAIN c.resp

\* C38: when the audit is triggered but no id can be extracted from the
\* store's response to the Record write, the save call calls no model,
\* writes no Audit Report and returns status "saved" with the audit-ran flag
\* false
C38_NoIdNoAudit ==
    [][\A p \in Procs :
         NoIdExtracted(call'[p]) =>
            /\ ~AuditStarted(call'[p])
            /\ ~InPipeline(call'[p])
            /\ ~call'[p].agg_called
            /\ reports' = reports
            /\ call'[p].pc = "done" =>
                 /\ call'[p].status = "saved"
                 /\ ~call'[p].jury_reviewed]_vars

\* the gate was open for a call whose Record write returned no id: the call
\* is done, and the earlier save has its report
C38_Witness ==
    /\ call[1].pc = "done"
    /\ call[1].faults = {"noid"}
    /\ NoIdExtracted(call[1])
    /\ JuryTriggered(jury_trigger_modulo, call[1].jury_trigger_count)
    /\ call[1].jury_trigger_count = 2
    /\ Len(reports) = 1

\* C39: the save orchestration of server.py and that of
\* tools/symptom_tools.py are equivalent: on the same draft, modulus, store
\* state and pattern of storage and model failures they make the same store
\* writes in the same order and return the same status and audit-ran flag
C39_OrchestrationsEquivalent ==
    sides.pc = "done" =>
        /\ sides.impl.writes = sides.server.writes
        /\ sides.impl.status = sides.server.status
        /\ sides.impl.jury_reviewed = sides.server.jury_reviewed

\* an audited save on both sides: Record, counter and report written
C39_Witness ==
    /\ sides.pc = "done"
    /\ Len(sides.server.writes) = 3
    /\ sides.server.writes[3].index = "reports"
    /\ sides.server.writes[2].doc = PyInt(2)
    /\ sides.in.modulo = 2
    /\ sides.server.jury_reviewed
    /\ sides.impl.status = "saved"

====
